---- MODULE Spec2Model ----
(***************************************************************************)
(* Model of the per-site crawl engine crawl_site_requests of               *)
(* social_listening_app.py: the frontier list to_visit, the visited set,   *)
(* the result lists matches and debug_rows, and the wall clock read by     *)
(* the site timeout check.                                                 *)
(*                                                                         *)
(* URLs are the numbers 1..NumUrls, all on the seed's host; start_url is   *)
(* 1.  A datetime is a pair <<day, time of day>>; None is the pair         *)
(* <<0, 0>>.  What a URL serves (keyword match, date) is fixed by the      *)
(* site, an input of the run; the links of a page and the outcome and      *)
(* duration of every fetch are drawn anew at every fetch.                  *)
(*                                                                         *)
(* Further parts model the loop over sites of main (SpecOrch, SpecPrefs),  *)
(* the three entry points of a crawl request (SpecEntry), the class        *)
(* SentimentAnalyzer (SpecSentiment) and the functions check_keywords,     *)
(* get_internal_links, extract_news_content_from_soup, extract_date and    *)
(* filter_results_by_sentiment, each applied once to an input drawn by     *)
(* the initial state.                                                      *)
(***************************************************************************)
EXTENDS Integers, Sequences, FiniteSets

\* ---------------------------------------------------------------- bounds
NumUrls == 3
MaxPagesBound == 3
MaxProcess == 5
MaxFaults == 2
NumSeeds == 2
MaxSitePages == 2
MaxKeywords == 2
MaxUploaded == 2
MaxText == 3
MaxHrefs == 2
NumSelectors == 2
NumDateTags == 2
MaxResults == 2

\* ------------------------------------------------------ program constants
\* requests.get(url, headers=headers, timeout=10)
FetchTimeout == 10

\* future.result(timeout=130)
OuterDeadline == 130

\* the max_pages and site_timeout main submits every crawl with
OrchMaxPages == 100

OrchSiteTimeout == 120

\* data.get('max_pages', 100) of the two /crawl routes
DefaultMaxPages == 100

\* for url in urls[:5]
DemoUrlLimit == 5

\* return text[:2000]
ContentCap == 2000

\* compound scores are counted in hundredths: the defaults min_score=-1.0 and
\* max_score=1.0 of filter_results_by_sentiment, and the 0.05 of its bands
DefaultMinScore == -100

DefaultMaxScore == 100

Band == 5

\* if len(text) < 10: return ""
MinCleanLen == 10

start_url == 1

Urls == 1..NumUrls

None == <<0, 0>>

Unknown == 0

\* the values main passes as date_from and as date_to: None or midnight of
\* the day chosen in the date input
FromDates == {None, <<2, 0>>, <<3, 0>>}

ToDates == {None, <<1, 0>>, <<2, 0>>}

\* the values of site_timeout
SiteTimeouts == {FetchTimeout, 2 * FetchTimeout}

\* how long one requests.get can take: at once, or up to its timeout
FetchDurations == {0, FetchTimeout}

\* how long parsing, matching and the sentiment stage of one page can take
ProcessDurations == {0, MaxProcess}

\* a sentiment result: whether the dictionary has an 'error' key, and which
\* statement produced it
NoSentiment == [error |-> FALSE, by |-> "none"]

Scores == [error |-> FALSE, by |-> "analyze_sentiment"]

ErrorResult == [error |-> TRUE, by |-> "analyze_sentiment"]

CaughtError == [error |-> TRUE, by |-> "except"]

FallbackScores == [error |-> FALSE, by |-> "analyze_sentiment_vader"]

FallbackError == [error |-> TRUE, by |-> "analyze_sentiment_vader"]

\* how the sentiment stage behaves on a page: whether it runs at all
\* (extracted_content and enable_sentiment and SENTIMENT_AVAILABLE), whether
\* SentimentAnalyzer(...).analyze_sentiment(...) raises, what it returns, and
\* what the fallback call of the except block does
StageSkipped == [runs |-> FALSE, raises |-> FALSE, result |-> NoSentiment, fallback |-> "raises"]

StageScores == [runs |-> TRUE, raises |-> FALSE, result |-> Scores, fallback |-> "raises"]

StageTooShort == [runs |-> TRUE, raises |-> FALSE, result |-> ErrorResult, fallback |-> "raises"]

StageRaises == [runs |-> TRUE, raises |-> TRUE, result |-> NoSentiment, fallback |-> "raises"]

StageRaisesVaderScores == [runs |-> TRUE, raises |-> TRUE, result |-> NoSentiment, fallback |-> "scores"]

StageRaisesVaderError == [runs |-> TRUE, raises |-> TRUE, result |-> NoSentiment, fallback |-> "error"]

\* what check_keywords, extract_date and the sentiment stage yield on the
\* pages of a site: the keywords match or not, the date is midnight of day 2,
\* later on day 2, or cannot be extracted
PageKinds ==
    << [keyword_found |-> TRUE,  page_date |-> <<2, 0>>, stage |-> StageScores],
       [keyword_found |-> TRUE,  page_date |-> <<2, 1>>, stage |-> StageRaisesVaderScores],
       [keyword_found |-> TRUE,  page_date |-> None,     stage |-> StageRaises],
       [keyword_found |-> FALSE, page_date |-> <<2, 1>>, stage |-> StageSkipped],
       [keyword_found |-> TRUE,  page_date |-> None,     stage |-> StageRaisesVaderError],
       [keyword_found |-> TRUE,  page_date |-> <<2, 0>>, stage |-> StageTooShort] >>

\* the sites: every URL serves one kind of page, every kind is served by
\* every URL in one of the sites
Sites ==
    {[u \in Urls |-> PageKinds[((u + k) % Len(PageKinds)) + 1]] : k \in 0..(Len(PageKinds) - 1)}

\* ------------------------------------------------------------- helpers
\* datetime comparison a < b
DtLess(a, b) == a[1] < b[1] \/ (a[1] = b[1] /\ a[2] < b[2])

\* page_date.strftime('%Y-%m-%d') if page_date else 'Unknown'
DateStr(page_date) == IF page_date # None THEN page_date[1] ELSE Unknown

InSeq(x, s) == \E i \in 1..Len(s) : s[i] = x

\* for link in links: if link not in visited and link not in to_visit:
\* the links of the set that the loop appends
NewLinksUnvisited(links, seen, frontier) ==
    {link \in links : link \notin seen}

NewLinks(links, seen, frontier) ==
    {link \in links : link \notin seen /\ ~InSeq(link, frontier)}

\* to_visit.append(link), for the new links in the order the set yields them
ExtendFront(frontier, ord) == ord \o frontier

Extend(frontier, ord) == frontier \o ord

\* the orders in which the set get_internal_links returns can be iterated
Orderings(S) ==
    {s \in [1..Cardinality(S) -> S] : \A i, j \in 1..Cardinality(S) : i # j => s[i] # s[j]}

\* to_visit.pop(0): the element removed, and the list left
PopKeep(s) == s

PopRest(s) == Tail(s)

PopItem(s) == Head(s)

VARIABLES
    pc,           \* "loop": at the while test, "fetch": url dequeued, "done": returned
    max_pages, site_timeout, date_from, date_to,
    site,         \* the pages the host serves
    visited, to_visit, matches, debug_rows,
    url,          \* the URL dequeued last
    elapsed,      \* time.time() - start_time
    outcome,      \* what the last step did
    fetches,      \* number of requests.get calls issued
    fetched,      \* the URLs requested so far
    faults,       \* number of fetches and pages that failed
    \* the site orchestrator, the loop over urls of main
    opc,          \* "submit", "result": in future.result, "shutdown": leaving
                  \* the with block after the TimeoutError, "done"
    seed,         \* index in urls of the site being crawled
    worker,       \* the crawl thread: "idle", "running", "blocked", "returned"
    w_elapsed,    \* seconds since the crawl was submitted
    w_matches,    \* the matches list of the running crawl
    w_debug,      \* the debug_rows list of the running crawl
    results,      \* the aggregated matches
    debug_rows_all,
    notices,      \* the sites a [TIMEOUT] message was written for
    collected,    \* per site handled, the matches its crawl held when it
                  \* returned or was abandoned
    \* a call of one of the pure functions or request handlers
    call,         \* the function called and its arguments
    ret           \* its return value, "pending" before the call returns

vars == <<pc, max_pages, site_timeout, date_from, date_to, site, visited, to_visit,
          matches, debug_rows, url, elapsed, outcome, fetches, fetched, faults,
          opc, seed, worker, w_elapsed, w_matches, w_debug, results, debug_rows_all,
          notices, collected, call, ret>>

\* the state of the orchestrator
orch == <<opc, seed, worker, w_elapsed, w_matches, w_debug, results, debug_rows_all,
          notices, collected>>

\* the state of one run of crawl_site_requests
crawl == <<pc, max_pages, site_timeout, date_from, date_to, site, visited, to_visit,
           matches, debug_rows, url, elapsed, outcome, fetches, fetched, faults>>

\* what no step of the crawl loop changes: its arguments, the site, and the
\* state of the other components
params == <<max_pages, site_timeout, date_from, date_to, site, orch, call, ret>>

\* no orchestrator is running
NoOrchestrator ==
    /\ opc = "none"
    /\ seed = 0
    /\ worker = "idle"
    /\ w_elapsed = 0
    /\ w_matches = <<>>
    /\ w_debug = <<>>
    /\ results = <<>>
    /\ debug_rows_all = <<>>
    /\ notices = {}
    /\ collected = <<>>

\* no function is being called
NoCall == call = [fn |-> "none"] /\ ret = [status |-> "pending"]

\* the state after start_time = time.time()
Start ==
    /\ pc = "loop"
    /\ visited = {}
    /\ to_visit = <<start_url>>
    /\ matches = <<>>
    /\ debug_rows = <<>>
    /\ url = 0
    /\ elapsed = 0
    /\ outcome = "none"
    /\ fetches = 0
    /\ fetched = {}
    /\ faults = 0
    /\ NoOrchestrator
    /\ NoCall

\* runs over every page cap and site timeout, without a date window
Init ==
    /\ max_pages \in 1..MaxPagesBound
    /\ site_timeout \in SiteTimeouts
    /\ date_from = None
    /\ date_to = None
    /\ site \in Sites
    /\ Start

\* runs over every page cap and site timeout on one of the sites
InitOneSite ==
    /\ max_pages \in 1..MaxPagesBound
    /\ site_timeout \in SiteTimeouts
    /\ date_from = None
    /\ date_to = None
    /\ site = [u \in Urls |-> PageKinds[(u % Len(PageKinds)) + 1]]
    /\ Start

\* runs over every date window and every site, with the largest page cap and
\* a site timeout that lets a run go on only while its calls return at once
InitPages ==
    /\ max_pages = MaxPagesBound
    /\ site_timeout = 0
    /\ date_from \in FromDates
    /\ date_to \in ToDates
    /\ site \in Sites
    /\ Start

\* while to_visit and len(visited) < max_pages
LoopCondInclusive == to_visit # <<>> /\ Cardinality(visited) <= max_pages

LoopCond == to_visit # <<>> /\ Cardinality(visited) < max_pages

\* if time.time() - start_time > site_timeout
TimeoutCondNever == FALSE

TimeoutCondLate == elapsed > site_timeout + FetchTimeout

TimeoutCond == elapsed > site_timeout

\* the while test fails: return matches, debug_rows
Finish ==
    /\ pc = "loop"
    /\ ~LoopCond
    /\ pc' = "done"
    /\ outcome' = IF to_visit = <<>> THEN "completed" ELSE "exhausted"
    /\ UNCHANGED <<params, visited, to_visit, matches, debug_rows, url, elapsed,
                   fetches, fetched, faults>>

\* the timeout check breaks out of the loop: return matches, debug_rows
TimedOut ==
    /\ pc = "loop"
    /\ LoopCond
    /\ TimeoutCond
    /\ pc' = "done"
    /\ outcome' = "timedout"
    /\ UNCHANGED <<params, visited, to_visit, matches, debug_rows, url, elapsed,
                   fetches, fetched, faults>>

\* url = to_visit.pop(0); an already visited url is skipped, any other is requested
DequeueSkipRequests ==
    /\ pc = "loop"
    /\ LoopCond
    /\ ~TimeoutCond
    /\ url' = PopItem(to_visit)
    /\ to_visit' = PopRest(to_visit)
    /\ IF PopItem(to_visit) \in visited
       THEN /\ pc' = "loop"
            /\ outcome' = "skip"
            /\ fetches' = fetches + 1
            /\ UNCHANGED fetched
       ELSE /\ pc' = "fetch"
            /\ outcome' = "request"
            /\ fetches' = fetches + 1
            /\ fetched' = fetched \cup {PopItem(to_visit)}
    /\ UNCHANGED <<params, visited, matches, debug_rows, elapsed, faults>>

Dequeue ==
    /\ pc = "loop"
    /\ LoopCond
    /\ ~TimeoutCond
    /\ url' = PopItem(to_visit)
    /\ to_visit' = PopRest(to_visit)
    /\ IF PopItem(to_visit) \in visited
       THEN /\ pc' = "loop"
            /\ outcome' = "skip"
            /\ UNCHANGED <<fetches, fetched>>
       ELSE /\ pc' = "fetch"
            /\ outcome' = "request"
            /\ fetches' = fetches + 1
            /\ fetched' = fetched \cup {PopItem(to_visit)}
    /\ UNCHANGED <<params, visited, matches, debug_rows, elapsed, faults>>

\* requests.get raises or the status is not 200: continue
FetchFailAborts ==
    /\ pc = "fetch"
    /\ faults < MaxFaults
    /\ \E d \in FetchDurations : elapsed' = elapsed + d
    /\ pc' = "done"
    /\ outcome' = "fetch_failed"
    /\ faults' = faults + 1
    /\ UNCHANGED <<params, visited, to_visit, matches, debug_rows, url, fetches, fetched>>

FetchFailMarksVisited ==
    /\ pc = "fetch"
    /\ faults < MaxFaults
    /\ \E d \in FetchDurations : elapsed' = elapsed + d
    /\ pc' = "loop"
    /\ outcome' = "fetch_failed"
    /\ faults' = faults + 1
    /\ visited' = visited \cup {url}
    /\ UNCHANGED <<params, to_visit, matches, debug_rows, url, fetches, fetched>>

FetchFail ==
    /\ pc = "fetch"
    /\ faults < MaxFaults
    /\ \E d \in FetchDurations : elapsed' = elapsed + d
    /\ pc' = "loop"
    /\ outcome' = "fetch_failed"
    /\ faults' = faults + 1
    /\ UNCHANGED <<params, visited, to_visit, matches, debug_rows, url, fetches, fetched>>

\* the date-range test of a page whose keywords match: the innermost else
\* branch, or the else branch of "if page_date", is taken
InRangeNoFrom(page_date) ==
    IF page_date # None
    THEN IF date_to # None /\ DtLess(date_to, page_date) THEN FALSE
         ELSE TRUE
    ELSE TRUE

InRangeDatedOnly(page_date) ==
    IF page_date # None
    THEN IF date_from # None /\ DtLess(page_date, date_from) THEN FALSE
         ELSE IF date_to # None /\ DtLess(date_to, page_date) THEN FALSE
         ELSE TRUE
    ELSE date_from = None /\ date_to = None

InRange(page_date) ==
    IF page_date # None
    THEN IF date_from # None /\ DtLess(page_date, date_from) THEN FALSE
         ELSE IF date_to # None /\ DtLess(date_to, page_date) THEN FALSE
         ELSE TRUE
    ELSE TRUE

\* the dictionary appended to debug_rows
DebugRow(u, keyword_found, page_date) ==
    [url |-> u, keyword_found |-> keyword_found, date |-> DateStr(page_date)]

\* the sentiment_result a page is stored with: None when the stage does not
\* run, the stage's result, or what the except block leaves when it raises
SentimentStageDropsError(stage) ==
    IF ~stage.runs THEN NoSentiment
    ELSE IF ~stage.raises THEN stage.result
    ELSE IF stage.fallback = "scores" THEN FallbackScores
    ELSE IF stage.fallback = "error" THEN FallbackError
    ELSE NoSentiment

SentimentStage(stage) ==
    IF ~stage.runs THEN NoSentiment
    ELSE IF ~stage.raises THEN stage.result
    ELSE IF stage.fallback = "scores" THEN FallbackScores
    ELSE IF stage.fallback = "error" THEN FallbackError
    ELSE CaughtError

\* the dictionary appended to matches
MatchRow(u, page_date, sentiment) ==
    [url |-> u, date |-> DateStr(page_date), sentiment |-> sentiment]

\* the page is fetched with status 200 and processed to the end
ProcessPage ==
    /\ pc = "fetch"
    /\ LET keyword_found == site[url].keyword_found
           page_date == site[url].page_date
       IN  /\ debug_rows' = Append(debug_rows, DebugRow(url, keyword_found, page_date))
           /\ matches' = IF keyword_found /\ InRange(page_date)
                         THEN Append(matches, MatchRow(url, page_date, SentimentStage(site[url].stage)))
                         ELSE matches
    /\ \E links \in SUBSET Urls : \E ord \in Orderings(NewLinks(links, visited, to_visit)) :
           to_visit' = Extend(to_visit, ord)
    /\ \E d \in FetchDurations, p \in ProcessDurations : elapsed' = elapsed + d + p
    /\ visited' = visited \cup {url}
    /\ pc' = "loop"
    /\ outcome' = "processed"
    /\ UNCHANGED <<params, url, fetches, fetched, faults>>

\* the page is fetched with status 200 and its processing raises after the
\* debug row was appended: in the date comparison (an offset-aware page date
\* against the naive date_from / date_to) or in get_internal_links (urljoin
\* on a malformed href); except Exception: continue
ProcessRaise ==
    /\ pc = "fetch"
    /\ faults < MaxFaults
    /\ LET keyword_found == site[url].keyword_found
           page_date == site[url].page_date
       IN  \E at \in {"compare", "links"} :
           /\ at = "compare" =>
                 keyword_found /\ page_date # None /\ (date_from # None \/ date_to # None)
           /\ debug_rows' = Append(debug_rows, DebugRow(url, keyword_found, page_date))
           /\ matches' = IF at = "links" /\ keyword_found /\ InRange(page_date)
                         THEN Append(matches, MatchRow(url, page_date, SentimentStage(site[url].stage)))
                         ELSE matches
    /\ \E d \in FetchDurations, p \in ProcessDurations : elapsed' = elapsed + d + p
    /\ pc' = "loop"
    /\ outcome' = "page_failed"
    /\ faults' = faults + 1
    /\ UNCHANGED <<params, visited, to_visit, url, fetches, fetched>>

Next ==
    \/ Finish
    \/ TimedOut
    \/ Dequeue
    \/ FetchFail
    \/ ProcessPage
    \/ ProcessRaise

Spec == Init /\ [][Next]_vars

\* every call returns, so the loop keeps taking steps until it returns
FairSpec == InitOneSite /\ [][Next]_vars /\ WF_vars(Next)

SpecPages == InitPages /\ [][Next]_vars

\* ------------------------------------------------------ site orchestrator
\* The loop over urls of main.  The crawl it submits runs in a thread of its
\* own; of that crawl the orchestrator model keeps the iterations (worker is
\* "check" at the while test and "page" inside an iteration), the two result
\* lists and the clock, counted in steps of one fetch timeout.

\* no crawl of the engine model is running
NoCrawl ==
    /\ pc = "idle"
    /\ max_pages = OrchMaxPages
    /\ site_timeout = OrchSiteTimeout
    /\ date_from = None
    /\ date_to = None
    /\ site = <<>>
    /\ visited = {}
    /\ to_visit = <<>>
    /\ matches = <<>>
    /\ debug_rows = <<>>
    /\ url = 0
    /\ elapsed = 0
    /\ outcome = "none"
    /\ fetches = 0
    /\ fetched = {}
    /\ faults = 0

InitOrch ==
    /\ NoCrawl
    /\ NoCall
    /\ opc = "submit"
    /\ seed = 1
    /\ worker = "idle"
    /\ w_elapsed = 0
    /\ w_matches = <<>>
    /\ w_debug = <<>>
    /\ results = <<>>
    /\ debug_rows_all = <<>>
    /\ notices = {}
    /\ collected = <<>>

\* for url in urls: the next site, or the end of the loop
NextSeed ==
    /\ seed' = seed + 1
    /\ opc' = IF seed + 1 > NumSeeds THEN "done" ELSE "submit"
    /\ worker' = "idle"

\* future = executor.submit(crawl_site_requests, url, ..., 100, False, 120, ...)
Submit ==
    /\ opc = "submit"
    /\ opc' = "result"
    /\ worker' = "check"
    /\ w_elapsed' = 0
    /\ w_matches' = <<>>
    /\ w_debug' = <<>>
    /\ UNCHANGED <<crawl, call, ret, seed, results, debug_rows_all, notices, collected>>

\* the crawl passes the while test and the timeout check and dequeues a URL
WorkerBegin ==
    /\ worker = "check"
    /\ Len(w_debug) < MaxSitePages
    /\ ~(w_elapsed > OrchSiteTimeout)
    /\ worker' = "page"
    /\ UNCHANGED <<crawl, call, ret, opc, seed, w_elapsed, w_matches, w_debug, results,
                   debug_rows_all, notices, collected>>

\* the iteration ends: a debug row, and a match when the page matches
WorkerEnd ==
    /\ worker = "page"
    /\ worker' = "check"
    /\ w_debug' = Append(w_debug, [seed |-> seed, n |-> Len(w_debug) + 1, event |-> "page"])
    /\ \E keyword_found \in BOOLEAN :
          w_matches' = IF keyword_found
                       THEN Append(w_matches, [seed |-> seed, n |-> Len(w_debug) + 1])
                       ELSE w_matches
    /\ UNCHANGED <<crawl, call, ret, opc, seed, w_elapsed, results, debug_rows_all,
                   notices, collected>>

\* a call of the iteration never returns
WorkerBlock ==
    /\ worker = "page"
    /\ worker' = "blocked"
    /\ UNCHANGED <<crawl, call, ret, opc, seed, w_elapsed, w_matches, w_debug, results,
                   debug_rows_all, notices, collected>>

\* the loop ends, on its while test or on the site timeout:
\* return matches, debug_rows
WorkerReturn ==
    /\ worker = "check"
    /\ worker' = "returned"
    /\ UNCHANGED <<crawl, call, ret, opc, seed, w_elapsed, w_matches, w_debug, results,
                   debug_rows_all, notices, collected>>

\* time passes while the crawl is inside an iteration
Tick ==
    /\ worker \in {"page", "blocked"}
    /\ w_elapsed < OuterDeadline + FetchTimeout
    /\ w_elapsed' = w_elapsed + FetchTimeout
    /\ UNCHANGED <<crawl, call, ret, opc, seed, worker, w_matches, w_debug, results,
                   debug_rows_all, notices, collected>>

\* matches, debug_rows = future.result(timeout=130) returns; the with block
\* is left; results.extend(matches); debug_rows_all.extend(debug_rows)
ResultReturned ==
    /\ opc = "result"
    /\ worker = "returned"
    /\ results' = results \o w_matches
    /\ debug_rows_all' = debug_rows_all \o w_debug
    /\ collected' = Append(collected, w_matches)
    /\ NextSeed
    /\ UNCHANGED <<crawl, call, ret, w_elapsed, w_matches, w_debug, notices>>

\* future.result raises concurrent.futures.TimeoutError: the [TIMEOUT]
\* message is written; continue
Deadline ==
    /\ opc = "result"
    /\ worker # "returned"
    /\ w_elapsed >= OuterDeadline
    /\ notices' = notices \cup {seed}
    /\ collected' = Append(collected, w_matches)
    /\ opc' = "shutdown"
    /\ UNCHANGED <<crawl, call, ret, seed, worker, w_elapsed, w_matches, w_debug, results,
                   debug_rows_all>>

\* continue leaves the with block: ThreadPoolExecutor.__exit__ calls
\* shutdown(wait=True), which returns when the crawl thread has ended
LeaveWith ==
    /\ opc = "shutdown"
    /\ worker = "returned"
    /\ NextSeed
    /\ UNCHANGED <<crawl, call, ret, w_elapsed, w_matches, w_debug, results,
                   debug_rows_all, notices, collected>>

NextOrch ==
    \/ Submit
    \/ WorkerBegin
    \/ WorkerEnd
    \/ WorkerBlock
    \/ WorkerReturn
    \/ Tick
    \/ ResultReturned
    \/ Deadline
    \/ LeaveWith

SpecOrch == InitOrch /\ [][NextOrch]_vars

\* ----------------------------------------------------------- entry points
\* The three places a crawl request enters the program: main of
\* social_listening_app.py, crawl_sites of flask_app_integrated.py and crawl
\* of flask_app.py.  A request is its keyword list, the number of uploaded
\* URLs, the search logic and max_pages; what comes back is whether it was
\* rejected, how many URLs were fetched and how many results were returned.

KeywordPool == {"", "sample", "another"}

SeqsUpTo(S, n) == UNION {[1..k -> S] : k \in 0..n}

Min(a, b) == IF a < b THEN a ELSE b

\* simple_results of crawl: the keywords of the pool each sample result
\* holds in its title or content, lowercased ('' is in every string)
simple_results ==
    << {"", "sample"},
       {"", "sample", "another"} >>

\* [kw for kw in st.session_state.keywords if kw.strip()]
get_active_keywords(keywords) == SelectSeq(keywords, LAMBDA kw : kw # "")

Rejected == [status |-> "rejected", fetches |-> 0, results |-> 0]

InitEntry ==
    /\ NoCrawl
    /\ NoOrchestrator
    /\ call \in [fn : {"main", "crawl_sites", "crawl"},
                 keywords : SeqsUpTo(KeywordPool, MaxKeywords),
                 urls : 0..MaxUploaded,
                 search_logic : {"AND", "OR"},
                 max_pages : {1, DefaultMaxPages}]
    /\ ret = [status |-> "pending"]

\* main: st.warning and return when no keyword is active, else the sites
\* are crawled one after the other
MainRequest ==
    /\ call.fn = "main"
    /\ ret.status = "pending"
    /\ IF get_active_keywords(call.keywords) = <<>>
       THEN ret' = Rejected
       ELSE \E requests \in {call.urls, call.urls * OrchMaxPages} :
            \E n \in {0, Min(1, requests), requests} :
                ret' = [status |-> "ok", fetches |-> requests, results |-> n]
    /\ UNCHANGED <<crawl, orch, max_pages, site_timeout, date_from, date_to, site, call>>

\* crawl_sites: 400 without uploaded URLs, 400 without keywords, else the
\* first five URLs are fetched
CrawlSitesRequest ==
    /\ call.fn = "crawl_sites"
    /\ ret.status = "pending"
    /\ IF call.urls = 0 \/ call.keywords = <<>>
       THEN ret' = Rejected
       ELSE \E n \in 0..Min(call.urls, DemoUrlLimit) :
                ret' = [status |-> "ok", fetches |-> Min(call.urls, DemoUrlLimit),
                        results |-> n]
    /\ UNCHANGED <<crawl, orch, max_pages, site_timeout, date_from, date_to, site, call>>

\* crawl: the sample results, filtered by the keywords when there are any,
\* cut at max_pages
CrawlRequest ==
    /\ call.fn = "crawl"
    /\ ret.status = "pending"
    /\ LET Keeps(i) ==
               IF call.search_logic = "AND"
               THEN \A k \in 1..Len(call.keywords) : call.keywords[k] \in simple_results[i]
               ELSE \E k \in 1..Len(call.keywords) : call.keywords[k] \in simple_results[i]
           final_results ==
               IF call.keywords # <<>>
               THEN SelectSeq(<<1, 2>>, Keeps)
               ELSE <<1, 2>>
       IN  ret' = [status |-> "ok", fetches |-> 0,
                   results |-> Min(Len(final_results), call.max_pages)]
    /\ UNCHANGED <<crawl, orch, max_pages, site_timeout, date_from, date_to, site, call>>

NextEntry ==
    \/ MainRequest
    \/ CrawlSitesRequest
    \/ CrawlRequest

SpecEntry == InitEntry /\ [][NextEntry]_vars

\* ---------------------------------------------------------- check_keywords
\* A string is a sequence of characters; the characters are a letter in its
\* two cases and a letter that has one case only.

Alphabet == {"a", "A", "b"}

\* str.lower() on one character
LowerChar(c) == IF c = "A" THEN "a" ELSE c

\* str.lower()
Lower(str) == [i \in 1..Len(str) |-> LowerChar(str[i])]

\* sub in str
Contains(str, sub) ==
    \E i \in 0..(Len(str) - Len(sub)) : SubSeq(str, i + 1, i + Len(sub)) = sub

\* the keywords a caller passes
KeywordStrings == {<<>>, <<"a">>, <<"A", "b">>, <<"b", "a">>}

check_keywords_as_typed(page_text, keywords, logic) ==
    IF keywords = <<>>
    THEN FALSE
    ELSE IF logic = "AND"
         THEN \A k \in 1..Len(keywords) : Contains(page_text, Lower(keywords[k]))
         ELSE \E k \in 1..Len(keywords) : Contains(page_text, Lower(keywords[k]))

check_keywords(page_text, keywords, logic) ==
    IF keywords = <<>>
    THEN FALSE
    ELSE IF logic = "AND"
         THEN \A k \in 1..Len(keywords) : Contains(Lower(page_text), Lower(keywords[k]))
         ELSE \E k \in 1..Len(keywords) : Contains(Lower(page_text), Lower(keywords[k]))

InitKeywords ==
    /\ NoCrawl
    /\ NoOrchestrator
    /\ call \in [fn : {"check_keywords"},
                 page_text : SeqsUpTo(Alphabet, MaxText),
                 keywords : SeqsUpTo(KeywordStrings, MaxKeywords),
                 logic : {"AND", "OR"}]
    /\ ret = [status |-> "pending"]

CheckKeywordsCall ==
    /\ call.fn = "check_keywords"
    /\ ret.status = "pending"
    /\ ret' = [status |-> "returned",
               value |-> check_keywords(call.page_text, call.keywords, call.logic)]
    /\ UNCHANGED <<crawl, orch, max_pages, site_timeout, date_from, date_to, site, call>>

NextKeywords == CheckKeywordsCall

SpecKeywords == InitKeywords /\ [][NextKeywords]_vars

\* ------------------------------------------------------ get_internal_links
\* A URL is its scheme, its netloc (a pair <<host, port>>) and its path; a
\* component an href leaves out is the empty string.

Schemes == {"http", "https", "mailto"}

NoNetloc == <<"", "">>

Netlocs == {"news.example", "other.example"} \X {"", "8080"}

\* urlparse(u).hostname
Host(netloc) == netloc[1]

\* the values of an href attribute: an absolute URL, a URL without scheme
\* (//host/path), a path, the empty string, a mailto: address
Hrefs ==
    [scheme : {"http", "https", ""}, netloc : Netlocs \cup {NoNetloc}, path : {"", "/a"}]
        \cup [scheme : {"mailto"}, netloc : {NoNetloc}, path : {"/a"}]

SeedUrls == [scheme : {"http", "https"}, netloc : Netlocs, path : {"/"}]

\* the sets of at most n elements of S
SubsetsUpTo(S, n) == UNION {{{f[i] : i \in 1..k} : f \in [1..k -> S]} : k \in 0..n}

\* the paths an href can give without a leading slash
RelativePaths == {"b"}

\* the path up to and including its last slash
Directory(path) == IF path = "/d/a" THEN "/d/" ELSE "/"

\* urllib.parse.urljoin(base, href)
urljoin(base, href) ==
    IF href.scheme # "" /\ href.scheme # base.scheme
    THEN href
    ELSE IF href.netloc # NoNetloc
         THEN [scheme |-> base.scheme, netloc |-> href.netloc, path |-> href.path]
         ELSE [scheme |-> base.scheme, netloc |-> base.netloc,
               path |-> IF href.path = "" THEN base.path
                        ELSE IF href.path \in RelativePaths
                        THEN Directory(base.path) \o href.path
                        ELSE href.path]

get_all_links(base_url, soup) ==
    {urljoin(base_url, href) : href \in soup}

get_internal_links(base_url, soup) ==
    {joined \in {urljoin(base_url, href) : href \in soup} :
        joined.netloc = base_url.netloc}

InitLinks ==
    /\ NoCrawl
    /\ NoOrchestrator
    /\ call \in [fn : {"get_internal_links"},
                 base_url : SeedUrls,
                 soup : SubsetsUpTo(Hrefs, MaxHrefs)]
    /\ ret = [status |-> "pending"]

GetInternalLinksCall ==
    /\ call.fn = "get_internal_links"
    /\ ret.status = "pending"
    /\ ret' = [status |-> "returned",
               value |-> get_internal_links(call.base_url, call.soup)]
    /\ UNCHANGED <<crawl, orch, max_pages, site_timeout, date_from, date_to, site, call>>

NextLinks == GetInternalLinksCall

SpecLinks == InitLinks /\ [][NextLinks]_vars

\* ------------------------------------------ extract_news_content_from_soup
\* Of a text only its length after the whitespace has been collapsed is
\* kept.  A soup is, for each of the first NumSelectors entries of
\* content_selectors, the text of the first element the selector finds, or
\* Absent, the same for its body, and whether one of the calls raises.

Absent == -1

TextLengths == {0, 1, ContentCap, ContentCap + 1}

ReturnsNone == [kind |-> "None"]

ReturnsStr(n) == [kind |-> "str", len |-> n]

Soups ==
    [select : [1..NumSelectors -> {Absent} \cup TextLengths],
     body : {Absent} \cup TextLengths,
     raises : BOOLEAN]

extract_news_content_from_soup(soup) ==
    IF soup.raises
    THEN ReturnsNone
    ELSE LET found == {i \in 1..NumSelectors : soup.select[i] # Absent}
             content ==
                 IF found # {}
                 THEN soup.select[CHOOSE i \in found : \A j \in found : i <= j]
                 ELSE soup.body
         IN  IF content # Absent
             THEN ReturnsStr(Min(content, ContentCap))
             ELSE ReturnsNone

InitContent ==
    /\ NoCrawl
    /\ NoOrchestrator
    /\ call \in [fn : {"extract_news_content_from_soup"}, soup : Soups]
    /\ ret = [status |-> "pending"]

ExtractContentCall ==
    /\ call.fn = "extract_news_content_from_soup"
    /\ ret.status = "pending"
    /\ ret' = [status |-> "returned",
               value |-> extract_news_content_from_soup(call.soup)]
    /\ UNCHANGED <<crawl, orch, max_pages, site_timeout, date_from, date_to, site, call>>

NextContent == ExtractContentCall

SpecContent == InitContent /\ [][NextContent]_vars

\* ------------------------------------------------------------ extract_date
\* A date string is Absent (no element, no attribute, no content), the
\* number Unparseable (dateparser.parse returns None) or the number of the
\* day it parses to.  A soup is, for each of the first NumDateTags names of
\* the tag list, the content of the first meta element with that name and
\* of the first with that property (NoMeta when there is no such element),
\* the datetime attribute and the text of its time element, and the first
\* YYYY-MM-DD match of its text.

Unparseable == 0

NoMeta == -2

DateStrings == {Absent, Unparseable, 1, 2}

DateSoups ==
    [meta_name : [1..NumDateTags -> {NoMeta} \cup DateStrings],
     meta_property : [1..NumDateTags -> {NoMeta, Unparseable, 1}],
     time_datetime : {Absent, Unparseable, 2},
     time_text : {Absent, 1},
     date_match : {Absent, Unparseable, 2}]

NoDate == [date |-> None, raw |-> <<"None">>]

\* dateparser.parse(string) of a string that is there
Parses(string) == string >= 1

\* meta = soup.find('meta', attrs={'name': tag}) or
\*        soup.find('meta', attrs={'property': tag})
FindMeta(soup, i) ==
    IF soup.meta_name[i] # NoMeta
    THEN [content |-> soup.meta_name[i], raw |-> <<"meta", "name", i>>]
    ELSE [content |-> soup.meta_property[i], raw |-> <<"meta", "property", i>>]

\* the for loop over the tag names, from the i-th on
RECURSIVE MetaLoop(_, _)
MetaLoop(soup, i) ==
    IF i > NumDateTags
    THEN NoDate
    ELSE LET meta == FindMeta(soup, i)
         IN  IF meta.content \notin {NoMeta, Absent} /\ Parses(meta.content)
             THEN [date |-> <<meta.content, 0>>, raw |-> meta.raw]
             ELSE MetaLoop(soup, i + 1)

extract_date(soup) ==
    LET from_meta == MetaLoop(soup, 1)
    IN  IF from_meta # NoDate THEN from_meta
        ELSE IF soup.time_datetime # Absent /\ Parses(soup.time_datetime)
        THEN [date |-> <<soup.time_datetime, 0>>, raw |-> <<"time", "datetime">>]
        ELSE IF soup.time_text # Absent /\ Parses(soup.time_text)
        THEN [date |-> <<soup.time_text, 0>>, raw |-> <<"time", "text">>]
        ELSE IF soup.date_match # Absent /\ Parses(soup.date_match)
        THEN [date |-> <<soup.date_match, 0>>, raw |-> <<"text">>]
        ELSE NoDate

InitDate ==
    /\ NoCrawl
    /\ NoOrchestrator
    /\ call \in [fn : {"extract_date"}, soup : DateSoups]
    /\ ret = [status |-> "pending"]

ExtractDateCall ==
    /\ call.fn = "extract_date"
    /\ ret.status = "pending"
    /\ ret' = [status |-> "returned", value |-> extract_date(call.soup)]
    /\ UNCHANGED <<crawl, orch, max_pages, site_timeout, date_from, date_to, site, call>>

NextDate == ExtractDateCall

SpecDate == InitDate /\ [][NextDate]_vars

\* ---------------------------------------------- filter_results_by_sentiment
\* A result is what its 'sentiment' entry is: "missing" (no key, None or an
\* empty dictionary), "error" (a dictionary with an 'error' key),
\* "nocompound" (a dictionary without 'compound') or "scored".

ScoreValues == {-50, -Band - 1, -Band, 0, Band, Band + 1, 50}

ResultKinds ==
    [sentiment : {"missing", "error", "nocompound"}, compound : {0}]
        \cup [sentiment : {"scored"}, compound : ScoreValues]

Categories == {"All", "Positive", "Negative", "Neutral"}

\* sentiment_data.get('compound', 0.0)
CompoundOf(result) == IF result.sentiment = "scored" THEN result.compound ELSE 0

\* the loop body: whether the result is appended to filtered
Keeps(result, sentiment_category, min_score, max_score) ==
    IF result.sentiment \in {"missing", "error"}
    THEN sentiment_category = "All"
    ELSE LET compound_score == CompoundOf(result)
         IN  IF compound_score < min_score \/ compound_score > max_score THEN FALSE
             ELSE IF sentiment_category = "Positive" /\ compound_score <= Band THEN FALSE
             ELSE IF sentiment_category = "Negative" /\ compound_score >= -Band THEN FALSE
             ELSE IF sentiment_category = "Neutral"
                     /\ (compound_score > Band \/ compound_score < -Band) THEN FALSE
             ELSE TRUE

filter_results_by_sentiment(res, sentiment_category, min_score, max_score) ==
    SelectSeq(res, LAMBDA result : Keeps(result, sentiment_category, min_score, max_score))

InitFilter ==
    /\ NoCrawl
    /\ NoOrchestrator
    /\ call \in [fn : {"filter_results_by_sentiment"},
                 results : SeqsUpTo(ResultKinds, MaxResults),
                 sentiment_category : Categories,
                 min_score : {DefaultMinScore, 0, 50},
                 max_score : {DefaultMaxScore, 0}]
    /\ ret = [status |-> "pending"]

FilterCall ==
    /\ call.fn = "filter_results_by_sentiment"
    /\ ret.status = "pending"
    /\ ret' = [status |-> "returned",
               value |-> filter_results_by_sentiment(call.results, call.sentiment_category,
                                                     call.min_score, call.max_score)]
    /\ UNCHANGED <<crawl, orch, max_pages, site_timeout, date_from, date_to, site, call>>

NextFilter == FilterCall

SpecFilter == InitFilter /\ [][NextFilter]_vars

\* -------------------------------------------------------- SentimentAnalyzer
\* SentimentAnalyzer(method).analyze_sentiment(text).  The inputs are the
\* method, which of the two libraries can be imported, the length of the
\* text after cleaning, and whether the analysis call of a library raises.
\* ret holds the object after __init__ and the returned dictionary after
\* analyze_sentiment: whether it has an 'error' key and which analyzer
\* produced it.

Methods == {"vader", "textblob", "hybrid", "other"}

CleanLengths == {0, MinCleanLen - 1, MinCleanLen, MinCleanLen + 1}

InitSentiment ==
    /\ NoCrawl
    /\ NoOrchestrator
    /\ call \in [fn : {"SentimentAnalyzer"},
                 method : Methods,
                 vader_installed : BOOLEAN,
                 textblob_installed : BOOLEAN,
                 text_length : CleanLengths,
                 vader_raises : BOOLEAN,
                 textblob_raises : BOOLEAN]
    /\ ret = [status |-> "pending"]

\* __init__: the local variable method after the first and after the second
\* try block, the two analyzers, and self.method
Construct ==
    /\ call.fn = "SentimentAnalyzer"
    /\ ret.status = "pending"
    /\ LET tries_vader == call.method \in {"vader", "hybrid"}
           vader_analyzer == tries_vader /\ call.vader_installed
           method1 == IF tries_vader /\ ~call.vader_installed THEN "textblob" ELSE call.method
           tries_textblob == method1 \in {"textblob", "hybrid"}
           textblob_analyzer == tries_textblob /\ call.textblob_installed
           method2 == IF tries_textblob /\ ~call.textblob_installed THEN "vader" ELSE method1
           self_method ==
               IF method2 = "hybrid" /\ ~(vader_analyzer /\ textblob_analyzer)
               THEN IF vader_analyzer THEN "vader" ELSE "textblob"
               ELSE call.method
       IN  ret' = [status |-> "constructed", method |-> self_method,
                   vader_analyzer |-> vader_analyzer,
                   textblob_analyzer |-> textblob_analyzer]
    /\ UNCHANGED <<crawl, orch, max_pages, site_timeout, date_from, date_to, site, call>>

SentimentError == [error |-> TRUE, by |-> "none"]

analyze_sentiment_vader(self) ==
    IF ~self.vader_analyzer THEN SentimentError
    ELSE IF call.vader_raises THEN [error |-> TRUE, by |-> "vader"]
    ELSE [error |-> FALSE, by |-> "vader"]

analyze_sentiment_textblob(self) ==
    IF ~self.textblob_analyzer THEN SentimentError
    ELSE IF call.textblob_raises THEN [error |-> TRUE, by |-> "textblob"]
    ELSE [error |-> FALSE, by |-> "textblob"]

analyze_sentiment_hybrid(self) ==
    IF ~(self.vader_analyzer /\ self.textblob_analyzer)
    THEN IF self.vader_analyzer THEN analyze_sentiment_vader(self)
         ELSE IF self.textblob_analyzer THEN analyze_sentiment_textblob(self)
         ELSE SentimentError
    ELSE LET vader_scores == analyze_sentiment_vader(self)
             textblob_scores == analyze_sentiment_textblob(self)
         IN  IF vader_scores.error \/ textblob_scores.error
             THEN IF ~vader_scores.error THEN vader_scores
                  ELSE IF ~textblob_scores.error THEN textblob_scores
                  ELSE SentimentError
             ELSE [error |-> FALSE, by |-> "hybrid"]

\* clean_text_for_sentiment, on the length of the text
clean_text_for_sentiment(n) == IF n < MinCleanLen THEN 0 ELSE n

analyze_sentiment(self, text_length) ==
    IF clean_text_for_sentiment(text_length) = 0
    THEN SentimentError
    ELSE IF self.method = "vader" THEN analyze_sentiment_vader(self)
    ELSE IF self.method = "textblob" THEN analyze_sentiment_textblob(self)
    ELSE IF self.method = "hybrid" THEN analyze_sentiment_hybrid(self)
    ELSE SentimentError

Analyze ==
    /\ call.fn = "SentimentAnalyzer"
    /\ ret.status = "constructed"
    /\ ret' = [status |-> "returned", value |-> analyze_sentiment(ret, call.text_length)]
    /\ UNCHANGED <<crawl, orch, max_pages, site_timeout, date_from, date_to, site, call>>

NextSentiment ==
    \/ Construct
    \/ Analyze

SpecSentiment == InitSentiment /\ [][NextSentiment]_vars

\* ------------------------------------------- the text the keywords are
\* matched on, and the base the links of a page are resolved against
\* A page is the text of its visible elements and the text inside its
\* script and style elements.  Whether soup.get_text() yields the strings
\* inside script and style elements depends on the installed version of
\* the parser library, which the repository does not pin.

PageTexts ==
    [visible : SeqsUpTo(Alphabet, MaxText),
     script : KeywordStrings,
     script_strings_are_text : BOOLEAN]

\* soup.get_text(separator=' ', strip=True), on the soup as parsed: nothing
\* has been removed from it when line 550 runs
get_text(page) ==
    IF page.script_strings_are_text /\ page.script # <<>>
    THEN IF page.visible = <<>>
         THEN page.script
         ELSE page.visible \o <<" ">> \o page.script
    ELSE page.visible

InitMatch ==
    /\ NoCrawl
    /\ NoOrchestrator
    /\ call \in [fn : {"keyword_found"},
                 page : PageTexts,
                 keywords : SeqsUpTo(KeywordStrings \ {<<>>}, MaxKeywords),
                 logic : {"AND", "OR"}]
    /\ ret = [status |-> "pending"]

\* page_text = soup.get_text(...); keyword_found = check_keywords(page_text,
\* keywords, logic)
KeywordFoundStep ==
    /\ call.fn = "keyword_found"
    /\ ret.status = "pending"
    /\ ret' = [status |-> "returned",
               value |-> check_keywords(get_text(call.page), call.keywords, call.logic)]
    /\ UNCHANGED <<crawl, orch, max_pages, site_timeout, date_from, date_to, site, call>>

NextMatch == KeywordFoundStep

SpecMatch == InitMatch /\ [][NextMatch]_vars

\* the pages of a site: the seed, a page next to it, a page in a directory
PagePaths == {"/", "/a", "/d/a"}

PageHrefs == Hrefs \cup [scheme : {""}, netloc : {NoNetloc}, path : RelativePaths]

InitPageLinks ==
    /\ NoCrawl
    /\ NoOrchestrator
    /\ call \in [fn : {"page_links"},
                 start_url : SeedUrls,
                 page_path : PagePaths,
                 soup : SubsetsUpTo(PageHrefs, MaxHrefs)]
    /\ ret = [status |-> "pending"]

\* for link in get_internal_links(start_url, soup): the links of the page
\* at url that the loop goes over
PageLinksStep ==
    /\ call.fn = "page_links"
    /\ ret.status = "pending"
    /\ ret' = [status |-> "returned",
               value |-> get_internal_links(call.start_url, call.soup)]
    /\ UNCHANGED <<crawl, orch, max_pages, site_timeout, date_from, date_to, site, call>>

NextPageLinks == PageLinksStep

SpecPageLinks == InitPageLinks /\ [][NextPageLinks]_vars

\* ------------------------------------------------------- user preferences
\* the values of the two number inputs of the preference panel
PrefPages == {10, OrchMaxPages, 500}

PrefTimeouts == {30, OrchSiteTimeout, 300}

\* the site loop of main, run under the preferences of the user
InitPrefs ==
    /\ NoCrawl
    /\ call \in [fn : {"main"}, max_crawl_pages : PrefPages, crawl_timeout : PrefTimeouts]
    /\ ret = [status |-> "pending"]
    /\ opc = "submit"
    /\ seed = 1
    /\ worker = "idle"
    /\ w_elapsed = 0
    /\ w_matches = <<>>
    /\ w_debug = <<>>
    /\ results = <<>>
    /\ debug_rows_all = <<>>
    /\ notices = {}
    /\ collected = <<>>

SpecPrefs == InitPrefs /\ [][NextOrch]_vars

TypeOK ==
    /\ pc \in {"idle", "loop", "fetch", "done"}
    /\ max_pages \in (1..MaxPagesBound) \cup {OrchMaxPages}
    /\ visited \subseteq Urls
    /\ fetched \subseteq Urls
    /\ \A i \in 1..Len(to_visit) : to_visit[i] \in Urls

\* ------------------------------------------------------------------ claims

\* C1: at every point of a run the visited set holds at most max_pages URLs
C1_VisitedWithinCap == Cardinality(visited) <= max_pages

\* the cap stopped a run of more than one page with URLs left in the frontier
C1_Witness ==
    /\ pc = "done"
    /\ outcome = "exhausted"
    /\ max_pages > 1
    /\ Cardinality(visited) = max_pages
    /\ to_visit # <<>>

\* C2: within one run no URL is requested more than once, whichever fetches
\* fail: the number of requests equals the number of distinct URLs requested
C2_NoUrlFetchedTwice == fetches = Cardinality(fetched)

\* C3: a run issues at most max_pages requests, failed ones included
C3_FetchesWithinCap == fetches <= max_pages

\* C4: when the fetch of the dequeued URL fails, the URL is in the visited
\* set when the loop comes back to its test, before the next dequeue
C4_FailedUrlVisited == (pc = "loop" /\ outcome = "fetch_failed") => url \in visited

\* C5: a failed fetch does not end the run and adds neither links to the
\* frontier nor a record to matches, and the step after it dequeues the head
\* of the frontier when the frontier is not empty and the time is not up
C5_FetchFailureContinues ==
    [][ /\ (pc = "fetch" /\ outcome' = "fetch_failed") =>
              (pc' = "loop" /\ to_visit' = to_visit /\ matches' = matches)
        /\ (pc = "loop" /\ outcome = "fetch_failed" /\ to_visit # <<>> /\ elapsed <= site_timeout) =>
              (url' = Head(to_visit) /\ to_visit' = Tail(to_visit) /\ pc' \in {"loop", "fetch"})
      ]_vars

\* a fetch failed while other URLs wait in the frontier and the time is not up
C5_Witness ==
    /\ pc = "loop"
    /\ outcome = "fetch_failed"
    /\ to_visit # <<>>
    /\ elapsed <= site_timeout

\* C6: every run terminates: it reaches the return statement
C6_Terminates == <>(pc = "done")

\* a run has returned on the site timeout after a failure and a visited page
C6_Witness ==
    /\ pc = "done"
    /\ outcome = "timedout"
    /\ faults > 0
    /\ visited # {}

\* C7 as stated: no URL is dequeued once the elapsed time has reached
\* site_timeout (the loop runs only while elapsed < site_timeout)
C7_NoDequeueAtTimeout ==
    [][(pc = "loop" /\ outcome' \in {"skip", "request"}) => elapsed < site_timeout]_vars

\* C7 as amended: no URL is dequeued once the elapsed time read by the check
\* exceeds site_timeout (the loop runs while elapsed <= site_timeout)
C7_NoDequeueAfterTimeout ==
    [][(pc = "loop" /\ outcome' \in {"skip", "request"}) => elapsed <= site_timeout]_vars

\* a URL was dequeued when the elapsed time was exactly site_timeout
C7_Witness == pc = "fetch" /\ elapsed = site_timeout

C9_FrontierFifo ==
    [][ \/ to_visit' = to_visit
        \/ /\ to_visit # <<>>
           /\ url' = Head(to_visit)
           /\ to_visit' = Tail(to_visit)
        \/ /\ Len(to_visit') > Len(to_visit)
           /\ SubSeq(to_visit', 1, Len(to_visit)) = to_visit
      ]_vars

\* a discovered URL was dequeued while URLs appended after it still wait
C9_Witness == pc = "fetch" /\ url # start_url /\ to_visit # <<>>

\* the keywords match the page of u and its date lies outside the window
OutOfWindow(u) ==
    /\ site[u].keyword_found
    /\ site[u].page_date # None
    /\ \/ date_from # None /\ DtLess(site[u].page_date, date_from)
       \/ date_to # None /\ DtLess(date_to, site[u].page_date)

\* C10: a page whose keywords match and whose date lies outside the window
\* is never in matches, and processing it appends a debug row with
\* keyword_found = true and the date found
C10_OutOfWindowExcluded ==
    /\ \A i \in 1..Len(matches) : ~OutOfWindow(matches[i].url)
    /\ (outcome \in {"processed", "page_failed"} /\ OutOfWindow(url)) =>
           /\ debug_rows # <<>>
           /\ debug_rows[Len(debug_rows)] =
                  [url |-> url, keyword_found |-> TRUE, date |-> site[url].page_date[1]]

\* a matching page dated before date_from was processed
C10_Witness ==
    /\ outcome = "processed"
    /\ site[url].keyword_found
    /\ date_from # None
    /\ site[url].page_date # None
    /\ DtLess(site[url].page_date, date_from)

\* C11: a fetched page whose keywords match and whose date cannot be
\* extracted is appended to matches with the date 'Unknown', whatever the
\* date window is
C11_UndatedMatchKept ==
    (outcome \in {"processed", "page_failed"}
        /\ site[url].keyword_found /\ site[url].page_date = None) =>
        /\ matches # <<>>
        /\ matches[Len(matches)].url = url
        /\ matches[Len(matches)].date = Unknown

\* an undated matching page was processed under a window with both bounds
C11_Witness ==
    /\ outcome = "processed"
    /\ site[url].keyword_found
    /\ site[url].page_date = None
    /\ date_from # None
    /\ date_to # None

\* C12: every URL in the visited set has a debug row carrying it
C12_VisitedHaveDebugRow ==
    \A u \in visited : \E i \in 1..Len(debug_rows) : debug_rows[i].url = u

\* two pages are visited, one whose keywords match and one whose do not
C12_Witness ==
    /\ Cardinality(visited) >= 2
    /\ \E u \in visited : site[u].keyword_found
    /\ \E u \in visited : ~site[u].keyword_found

\* the step from the dequeued URL back to the while test processes a page
\* that the keywords match, inside the date window, on which the sentiment
\* stage raises
SentimentRaisesOnMatch ==
    /\ pc = "fetch"
    /\ outcome' = "processed"
    /\ site[url].keyword_found
    /\ ~OutOfWindow(url)
    /\ site[url].stage.runs
    /\ site[url].stage.raises

\* C18 as stated: when the sentiment stage raises on a matched page, the page
\* is appended to matches exactly once with a sentiment that has an error field
C18_SentimentErrorKept ==
    [][SentimentRaisesOnMatch =>
          /\ Len(matches') = Len(matches) + 1
          /\ SubSeq(matches', 1, Len(matches)) = matches
          /\ matches'[Len(matches')].url = url
          /\ matches'[Len(matches')].sentiment.error
      ]_vars

\* C18 as amended: the page is appended to matches exactly once, with a
\* sentiment that has an error field or is what the analyze_sentiment_vader
\* fallback of the except block returned; it has an error field whenever that
\* fallback raises too
C18_SentimentErrorOrFallback ==
    [][SentimentRaisesOnMatch =>
          /\ Len(matches') = Len(matches) + 1
          /\ SubSeq(matches', 1, Len(matches)) = matches
          /\ matches'[Len(matches')].url = url
          /\ \/ matches'[Len(matches')].sentiment.error
             \/ matches'[Len(matches')].sentiment.by = "analyze_sentiment_vader"
          /\ site[url].stage.fallback = "raises" => matches'[Len(matches')].sentiment.error
      ]_vars

\* a matched page on which the stage raised and the fallback raised too was
\* processed to the end
C18_Witness ==
    /\ outcome = "processed"
    /\ site[url].keyword_found
    /\ site[url].stage.raises
    /\ site[url].stage.fallback = "raises"
    /\ matches # <<>>
    /\ matches[Len(matches)].url = url
    /\ matches[Len(matches)].sentiment = CaughtError

\* C13: when a site's crawl is cancelled, by its site timeout or by the outer
\* deadline, the matches it had collected are in the aggregated results
C13_CollectedMatchesKept ==
    \A s \in 1..Len(collected) : \A i \in 1..Len(collected[s]) :
        InSeq(collected[s][i], results)

\* C14: after the outer deadline the orchestrator can go on to the next seed
\* URL without waiting for the abandoned crawl, even when that crawl is
\* blocked in a call that never returns
C14_ProceedsWithoutWaiting == opc = "shutdown" => ENABLED LeaveWith

\* C15: for a site abandoned on the outer deadline the aggregated debug trace
\* holds an entry recording the timeout, and the results hold no match of it
C15_TimeoutInDebugTrace ==
    \A s \in notices :
        /\ \E i \in 1..Len(debug_rows_all) :
              debug_rows_all[i].seed = s /\ debug_rows_all[i].event = "timeout"
        /\ \A i \in 1..Len(results) : results[i].seed # s

\* C16: a request with an empty keyword list is rejected, at every entry
\* point, with nothing fetched and no results returned
C16_EmptyKeywordsRejected ==
    (call.fn # "none" /\ call.keywords = <<>> /\ ret.status # "pending") =>
        (ret.status = "rejected" /\ ret.fetches = 0 /\ ret.results = 0)

\* two characters are the same letter, whatever their case
SameLetter(c, d) == c = d \/ {c, d} = {"a", "A"}

\* the keyword stands somewhere in the text, letter for letter, case aside
OccursIgnoringCase(text, kw) ==
    \E i \in 0..(Len(text) - Len(kw)) :
        \A j \in 1..Len(kw) : SameLetter(text[i + j], kw[j])

\* C17: check_keywords returns false for an empty keyword list; otherwise
\* with AND it returns true exactly when every keyword occurs in the text as
\* a case-insensitive substring and with OR exactly when at least one does;
\* the result is a function of the inputs
C17_CheckKeywords ==
    (call.fn = "check_keywords" /\ ret.status = "returned") =>
        ret.value =
            IF call.keywords = <<>>
            THEN FALSE
            ELSE IF call.logic = "AND"
                 THEN \A k \in 1..Len(call.keywords) :
                          OccursIgnoringCase(call.page_text, call.keywords[k])
                 ELSE \E k \in 1..Len(call.keywords) :
                          OccursIgnoringCase(call.page_text, call.keywords[k])

\* an AND of two keywords returned true on a text that holds one of them in
\* another case only
C17_Witness ==
    /\ call.fn = "check_keywords"
    /\ ret.status = "returned"
    /\ ret.value
    /\ call.logic = "AND"
    /\ Len(call.keywords) = 2
    /\ call.keywords[1] # call.keywords[2]
    /\ \E k \in 1..2 : /\ ~Contains(call.page_text, call.keywords[k])
                       /\ ~Contains(call.page_text, Lower(call.keywords[k]))

\* C19 as stated: every link get_internal_links returns has the scheme and
\* the host of the seed URL
C19_SameSchemeAndHost ==
    (call.fn = "get_internal_links" /\ ret.status = "returned") =>
        \A link \in ret.value :
            /\ link.scheme = call.base_url.scheme
            /\ Host(link.netloc) = Host(call.base_url.netloc)

\* C19: every link get_internal_links returns has the netloc (host and
\* port) of the seed URL
C19_SameNetloc ==
    (call.fn = "get_internal_links" /\ ret.status = "returned") =>
        \A link \in ret.value :
            /\ link.netloc = call.base_url.netloc
            /\ Host(link.netloc) = Host(call.base_url.netloc)

\* a page with a link to another host and a link to the seed's netloc under
\* another scheme: the first is dropped, the second returned
C19_Witness ==
    /\ call.fn = "get_internal_links"
    /\ ret.status = "returned"
    /\ \E href \in call.soup : urljoin(call.base_url, href) \notin ret.value
    /\ \E link \in ret.value : link.scheme # call.base_url.scheme

\* C20: extract_news_content_from_soup returns None or a string of 1 to
\* 2000 characters, never the empty string
C20_NoneOrNonEmpty ==
    (call.fn = "extract_news_content_from_soup" /\ ret.status = "returned") =>
        \/ ret.value.kind = "None"
        \/ ret.value.len \in 1..ContentCap

\* C23: dequeuing a URL that is already visited changes the frontier only:
\* no request is issued, and visited, matches and debug_rows stay as they are
C23_SkipChangesFrontierOnly ==
    [][(pc = "loop" /\ LoopCond /\ ~TimeoutCond /\ Head(to_visit) \in visited) =>
           /\ to_visit' = Tail(to_visit)
           /\ pc' = "loop"
           /\ fetches' = fetches
           /\ fetched' = fetched
           /\ visited' = visited
           /\ matches' = matches
           /\ debug_rows' = debug_rows
      ]_vars

\* a visited URL was dequeued and dropped while the cap left room
C23_Witness ==
    /\ pc = "loop"
    /\ outcome = "skip"
    /\ url \in visited
    /\ Cardinality(visited) < max_pages

\* C24: a keyword-matching page whose calendar date is the day of date_from
\* or of date_to, and not outside the other end of the window, is in
\* matches once it has been processed, whatever its time of day
C24_WindowInclusiveOnDays ==
    \A u \in visited :
        LET page_date == site[u].page_date
        IN  ( /\ site[u].keyword_found
              /\ page_date # None
              /\ \/ date_from # None /\ page_date[1] = date_from[1]
                 \/ date_to # None /\ page_date[1] = date_to[1]
              /\ date_from # None => date_from[1] <= page_date[1]
              /\ date_to # None => page_date[1] <= date_to[1] )
            => \E i \in 1..Len(matches) : matches[i].url = u

\* C28: the frontier never holds a URL twice
C28_FrontierNoDuplicates ==
    \A i, j \in 1..Len(to_visit) : i # j => to_visit[i] # to_visit[j]

\* after two pages were processed the frontier holds several URLs, a
\* visited one among them
C28_Witness ==
    /\ outcome = "processed"
    /\ Cardinality(visited) >= 2
    /\ Len(to_visit) >= 2
    /\ \E i \in 1..Len(to_visit) : to_visit[i] \in visited

\* C29: no two entries of debug_rows and no two entries of matches carry
\* the same URL
C29_NoUrlTwiceInResults ==
    /\ \A i, j \in 1..Len(debug_rows) : i # j => debug_rows[i].url # debug_rows[j].url
    /\ \A i, j \in 1..Len(matches) : i # j => matches[i].url # matches[j].url

\* the date strings of a soup in the order of the sources: per tag name the
\* meta with that name and the meta with that property, then the time
\* element's attribute and text, then the match in the text
DateSources(soup) ==
    [k \in 1..(2 * NumDateTags + 3) |->
        IF k <= 2 * NumDateTags
        THEN IF k % 2 = 1
             THEN [string |-> soup.meta_name[(k + 1) \div 2], raw |-> <<"meta", "name", (k + 1) \div 2>>]
             ELSE [string |-> soup.meta_property[k \div 2], raw |-> <<"meta", "property", k \div 2>>]
        ELSE IF k = 2 * NumDateTags + 1
        THEN [string |-> soup.time_datetime, raw |-> <<"time", "datetime">>]
        ELSE IF k = 2 * NumDateTags + 2
        THEN [string |-> soup.time_text, raw |-> <<"time", "text">>]
        ELSE [string |-> soup.date_match, raw |-> <<"text">>]]

\* C21: extract_date returns the date and raw string of the first source
\* that holds a parseable date, and (None, None) only when none does
C21_FirstParseableSource ==
    (call.fn = "extract_date" /\ ret.status = "returned") =>
        LET sources == DateSources(call.soup)
            yields == {k \in DOMAIN sources : sources[k].string >= 1}
        IN  IF yields = {}
            THEN ret.value = NoDate
            ELSE LET first == CHOOSE k \in yields : \A j \in yields : k <= j
                 IN  ret.value = [date |-> <<sources[first].string, 0>>,
                                  raw |-> sources[first].raw]

\* the score lies in the band of the category
InBand(category, score) ==
    /\ category = "Positive" => score > Band
    /\ category = "Negative" => score < -Band
    /\ category = "Neutral" => (-Band <= score /\ score <= Band)

\* C22: every result filter_results_by_sentiment returns has a compound
\* score inside [min_score, max_score] and inside the band of the category;
\* a result without a score is returned only on the default range and the
\* category All
C22_ReturnedInRangeAndBand ==
    (call.fn = "filter_results_by_sentiment" /\ ret.status = "returned") =>
        \A i \in 1..Len(ret.value) :
            IF ret.value[i].sentiment = "scored"
            THEN /\ call.min_score <= ret.value[i].compound
                 /\ ret.value[i].compound <= call.max_score
                 /\ InBand(call.sentiment_category, ret.value[i].compound)
            ELSE /\ call.sentiment_category = "All"
                 /\ call.min_score = DefaultMinScore
                 /\ call.max_score = DefaultMaxScore

\* C30: when exactly one of the two libraries is installed and works,
\* analyze_sentiment on a text of at least 10 cleaned characters returns
\* scores without an error field, for each of vader, textblob and hybrid
C30_FallsBackToAvailable ==
    ( /\ call.fn = "SentimentAnalyzer"
      /\ ret.status = "returned"
      /\ call.method \in {"vader", "textblob", "hybrid"}
      /\ call.text_length >= MinCleanLen
      /\ \/ call.vader_installed /\ ~call.vader_raises /\ ~call.textblob_installed
         \/ call.textblob_installed /\ ~call.textblob_raises /\ ~call.vader_installed )
    => ~ret.value.error

\* C25: a page whose keywords do not match its visible text, whatever its
\* script and style elements hold, is not a keyword match
C25_ScriptTextNotMatched ==
    (call.fn = "keyword_found" /\ ret.status = "returned") =>
        (ret.value => check_keywords(call.page.visible, call.keywords, call.logic))

\* the URL of the page the links were found on
PageUrl ==
    [scheme |-> call.start_url.scheme, netloc |-> call.start_url.netloc,
     path |-> call.page_path]

\* C26: the links of a page the loop goes over are its hrefs resolved
\* against the URL of that page, those on the seed's netloc
C26_ResolvedAgainstPage ==
    (call.fn = "page_links" /\ ret.status = "returned") =>
        ret.value = {joined \in {urljoin(PageUrl, href) : href \in call.soup} :
                        joined.netloc = call.start_url.netloc}

\* C27: a crawl the orchestrator has started runs with the max_pages and
\* site_timeout of the preference panel
C27_CrawlUsesPreferences ==
    (call.fn = "main" /\ worker # "idle") =>
        /\ max_pages = call.max_crawl_pages
        /\ site_timeout = call.crawl_timeout

====
